---- MODULE Spec2Model ----
(***************************************************************************)
(* A model of the publish and reconciliation engine of cml (src/cml.js):   *)
(* the watermark of a report, commentCreate with its watch handler, the    *)
(* asset publishing of a report, prCreate and parseRunnerLog.              *)
(*                                                                         *)
(* Strings whose characters matter (labels, ids, tokens, comment bodies)   *)
(* are sequences of one-character strings, so that replace, trim and       *)
(* includes are computed character by character as the code computes them. *)
(***************************************************************************)
EXTENDS Integers, Sequences, FiniteSets, TLC

VARIABLES
    \* ---- the watermark of a report (genWatermark, updatableComment) ----
    wmPc,        \* "input" | "rendered" | "matched"
    wmLabel,     \* opts.watermarkTitle
    wmWorkflow,  \* drv.workflowId
    wmRun,       \* drv.runId of the run that wrote the comment
    wmRun2,      \* drv.runId of the run that looks for the comment
    wmToken,     \* genWatermark for wmRun
    wmToken2,    \* genWatermark for wmRun2
    wmBody,      \* the report posted by the run wmRun
    wmFound,     \* body.includes(wmToken)
    wmFound2,    \* body.includes(wmToken2)
    \* ---- parseRunnerLog ----
    logPc,       \* "idle" | "loop" | "done" | "threw"
    logIn,       \* the text of the call, as what the driver's patterns match
    logI,        \* the place of the loop in Statuses
    logs,        \* the events pushed so far
    logCalls,    \* the calls made so far
    logFirst,    \* what the first call returned
    \* ---- prCreate: the options, the repository, the remote, the driver ----
    prIn,        \* the options of prCreate and what the driver knows
    gitFiles,    \* the changed files of the working tree (git status)
    gitBranch,   \* the current local branch
    gitHead,     \* the commit of HEAD
    gitLog,      \* the messages of the commits made
    gitLocal,    \* the local branches
    gitShallow,  \* git rev-parse --is-shallow-repository
    gitRemote,   \* the branches of the remote
    prList,      \* the pull requests the driver lists
    prPc,        \* "idle" | "status" | "probe" | "push" | "create"
    prCur,       \* the locals of the call in progress
    prOps,       \* the git and driver operations of the call in progress
    prCalls,     \* the calls made so far
    prRets,      \* what the completed calls returned
    prOpsLog,    \* the operations of the completed calls
    \* ---- commentCreate, its watch handler and the driver's comments ----
    ccOpts,      \* the options of commentCreate
    comments0,   \* the comments of the target before the first call
    comments,    \* the comments of the target, in the driver's listing order
    ex,          \* the executions of commentCreate in progress, by number:
                 \* 0 is the caller's call, n >= 1 the n-th cycle of the handler
    rets,        \* what the caller's completed calls did and returned
    calls,       \* the calls the caller made so far
    lock,        \* lock of the watch handler
    first,       \* first of the watch handler
    watching,    \* the handler is registered with the watcher
    watched,     \* the paths added to the watcher
    triggerExists, \* the trigger file exists
    delivered,   \* the events the watcher delivered to the handler
    started,     \* the cycles the handler started
    ended,       \* the cycles that ended
    lastOutcome, \* how the last ended cycle ended: "none" | "ok" | "threw"
    orphans,     \* the uploads still pending of executions that ended
    \* ---- upload ----
    upIn,        \* the file, and what the asset store answers
    upPc,        \* "off" | "idle" | "data" | "fetch" | "text" | "ended" | "done"
    upRet,       \* what upload returned or threw
    upNode,      \* the reference of the report that is being published
    \* ---- sshConnection ----
    sshMaxTries, \* maxTries of the call
    sshPc,       \* "off" | "idle" | "connect" | "sleep" | "returned" | "threw"
    sshTrials,   \* trials
    sshAttempts, \* the calls of ssh.connect made so far
    sshErr,      \* the error of the last attempt that failed
    sshThrown    \* the error the call threw

wmVars == <<wmPc, wmLabel, wmWorkflow, wmRun, wmRun2, wmToken, wmToken2,
            wmBody, wmFound, wmFound2>>

logVars == <<logPc, logIn, logI, logs, logCalls, logFirst>>

prVars == <<prIn, gitFiles, gitBranch, gitHead, gitLog, gitLocal, gitShallow,
            gitRemote, prList, prPc, prCur, prOps, prCalls, prRets, prOpsLog>>

ccVars == <<ccOpts, comments0, comments, ex, rets, calls, lock, first,
            watching, watched, triggerExists, delivered, started, ended,
            lastOutcome, orphans>>

upVars == <<upIn, upPc, upRet, upNode>>

sshVars == <<sshMaxTries, sshPc, sshTrials, sshAttempts, sshErr, sshThrown>>

vars == <<wmVars, logVars, prVars, ccVars, upVars, sshVars>>

(***************************************************************************)
(* Bounds of the model.                                                    *)
(***************************************************************************)
\* a label is the concatenation of at most this many chunks of LabelChunks
MaxLabelChunks == 2
\* parseRunnerLog is called at most this many times on one text
MaxParseCalls == 2
\* the files of the working tree are 1..MaxFiles
MaxFiles == 1
\* prCreate is called at most this many times, one call after the other
MaxPrCalls == 2
\* the caller calls commentCreate at most this many times, one after the other
MaxCalls == 2
\* the watcher delivers at most this many events
MaxEvents == 3
\* maxTries of a call of sshConnection is at most this, or the default
MaxTriesBound == 2

(***************************************************************************)
(* Strings.                                                                *)
(***************************************************************************)
\* String.prototype.indexOf: the first (1-based) place of pat in s, 0 if none
IndexOf(s, pat) ==
    LET places == {i \in 1..(Len(s) - Len(pat) + 1) :
                      SubSeq(s, i, i + Len(pat) - 1) = pat}
    IN  IF places = {} THEN 0
        ELSE CHOOSE i \in places : \A j \in places : i <= j

\* String.prototype.includes
Includes(s, pat) == IndexOf(s, pat) # 0

\* String.prototype.replace with a string pattern: the first occurrence only
ReplaceFirst(s, pat, rep) ==
    LET i == IndexOf(s, pat)
    IN  IF i = 0 THEN s
        ELSE SubSeq(s, 1, i - 1) \o rep \o SubSeq(s, i + Len(pat), Len(s))

\* String.prototype.replace with a global one-character regular expression
RECURSIVE ReplaceAll(_, _, _)
ReplaceAll(s, c, rep) ==
    IF s = <<>> THEN <<>>
    ELSE (IF Head(s) = c THEN rep ELSE <<Head(s)>>) \o ReplaceAll(Tail(s), c, rep)

WhiteSpace == {" ", "\n", "\t"}

\* String.prototype.trim
RECURSIVE TrimStart(_)
TrimStart(s) ==
    IF s # <<>> /\ Head(s) \in WhiteSpace THEN TrimStart(Tail(s)) ELSE s

RECURSIVE TrimEnd(_)
TrimEnd(s) ==
    IF s # <<>> /\ s[Len(s)] \in WhiteSpace
    THEN TrimEnd(SubSeq(s, 1, Len(s) - 1)) ELSE s

Trim(s) == TrimEnd(TrimStart(s))

(***************************************************************************)
(* The watermark.                                                          *)
(***************************************************************************)
WATERMARK_IMAGE ==
    <<"h", "t", "t", "p", "s", ":", "/", "/", "c", "m", "l", ".", "d", "e",
      "v", "/", "w", "a", "t", "e", "r", "m", "a", "r", "k", ".", "p", "n",
      "g">>

WorkflowPlaceholder == <<"{", "w", "o", "r", "k", "f", "l", "o", "w", "}">>
RunPlaceholder == <<"{", "r", "u", "n", "}">>

\* the label with its placeholders replaced (line 190)
SubstituteLabel_NoRun(label, workflow, run) ==
    ReplaceFirst(label, WorkflowPlaceholder, workflow)

SubstituteLabel(label, workflow, run) ==
    ReplaceFirst(ReplaceFirst(label, WorkflowPlaceholder, workflow),
                 RunPlaceholder, run)

\* the four escapes, applied in the order of the patterns array (196-205)
EscapeTitle(title) ==
    ReplaceAll(
      ReplaceAll(
        ReplaceAll(
          ReplaceAll(title, "_", <<"\\", "_">>),
          "*", <<"\\", "*">>),
        "[", <<"\\", "[">>),
      "<", <<"\\", "<">>)

genWatermark(label, workflow, run) ==
    LET lbl == SubstituteLabel(label, workflow, run)
        title == Trim(<<"C", "M", "L", " ", "w", "a", "t", "e", "r", "m", "a",
                        "r", "k", " ">> \o lbl)
    IN  <<"!", "[", "]", "(">> \o WATERMARK_IMAGE \o <<" ", "\"">>
          \o EscapeTitle(title) \o <<"\"", ")">>

\* the report that is posted: the user's report, two newlines, the watermark
\* (line 225)
Report(userReport, watermark) == userReport \o <<"\n", "\n">> \o watermark

\* the predicate of updatableComment (line 297)
BodyMatches(body, watermark) == Includes(body, watermark)

(***************************************************************************)
(* The inputs of the watermark.                                            *)
(***************************************************************************)
LabelChunks ==
    { RunPlaceholder, WorkflowPlaceholder, <<"a">>, <<"_">>, <<" ">>,
      <<"{">>, <<"}">>, <<"<", "r", "u", "n">> }

RECURSIVE Concat(_)
Concat(chunks) ==
    IF chunks = <<>> THEN <<>> ELSE Head(chunks) \o Concat(Tail(chunks))

Labels ==
    { Concat(cs) : cs \in UNION { [1..n -> LabelChunks] : n \in 0..MaxLabelChunks } }

WorkflowIds == { <<"7">>, <<"r", "u", "n">> }
RunIds == { <<"1">>, <<"2">>, <<"1", "2">> }
UserReport == <<"o", "k">>

WmInit ==
    /\ wmPc = "input"
    /\ wmLabel \in Labels
    /\ wmWorkflow \in WorkflowIds
    /\ wmRun \in RunIds
    /\ wmRun2 \in RunIds
    /\ wmToken = <<>>
    /\ wmToken2 = <<>>
    /\ wmBody = <<>>
    /\ wmFound = FALSE
    /\ wmFound2 = FALSE

WmIdle ==
    /\ wmPc = "off"
    /\ wmLabel = <<>>
    /\ wmWorkflow = <<>>
    /\ wmRun = <<>>
    /\ wmRun2 = <<>>
    /\ wmToken = <<>>
    /\ wmToken2 = <<>>
    /\ wmBody = <<>>
    /\ wmFound = FALSE
    /\ wmFound2 = FALSE

\* two runs render their watermark; the first posts its report
WmRender ==
    /\ wmPc = "input"
    /\ wmToken' = genWatermark(wmLabel, wmWorkflow, wmRun)
    /\ wmToken2' = genWatermark(wmLabel, wmWorkflow, wmRun2)
    /\ wmBody' = Report(UserReport, genWatermark(wmLabel, wmWorkflow, wmRun))
    /\ wmPc' = "rendered"
    /\ UNCHANGED <<wmLabel, wmWorkflow, wmRun, wmRun2, wmFound, wmFound2>>
    /\ UNCHANGED <<logVars, prVars, ccVars, upVars, sshVars>>

\* each run looks for its watermark in the posted comment
WmMatch ==
    /\ wmPc = "rendered"
    /\ wmFound' = BodyMatches(wmBody, wmToken)
    /\ wmFound2' = BodyMatches(wmBody, wmToken2)
    /\ wmPc' = "matched"
    /\ UNCHANGED <<wmLabel, wmWorkflow, wmRun, wmRun2, wmToken, wmToken2, wmBody>>
    /\ UNCHANGED <<logVars, prVars, ccVars, upVars, sshVars>>

WmNext == WmRender \/ WmMatch

(***************************************************************************)
(* parseRunnerLog.  The driver's patterns are regular expressions of the   *)
(* platform; a text is modelled by which of them match it.                 *)
(***************************************************************************)
Statuses == <<"ready", "job_started", "job_ended">>

LogInputs ==
    [ empty : BOOLEAN,        \* !data
      ready : BOOLEAN,        \* patterns.ready.test(data)
      started : BOOLEAN,      \* patterns.job_started.test(data)
      ended : BOOLEAN,        \* patterns.job_ended.test(data)
      succeeded : BOOLEAN,    \* patterns.job_ended_succeded.test(data)
      jobInText : BOOLEAN,    \* patterns.job is set and captures an id
      byName : BOOLEAN,       \* name && this.driver === GITHUB
      runnerFound : BOOLEAN ] \* runnerByName finds the runner

PatternMatches_Any(in, status) == TRUE

\* regex.test(data) for the pattern of a status (line 378)
PatternMatches(in, status) ==
    CASE status = "ready" -> in.ready
      [] status = "job_started" -> in.started
      [] status = "job_ended" -> in.ended

\* log.level (line 400): log.success is undefined unless the status is job_ended
LevelOf(success) == IF success = "true" THEN "info" ELSE "error"

\* the event of one status whose pattern matched (lines 379-400)
LogEvent(in, status) ==
    LET success == IF status = "job_ended"
                   THEN (IF in.succeeded THEN "true" ELSE "false")
                   ELSE "undefined"
        job == IF status # "job_started" THEN "undefined"
               ELSE IF in.byName THEN "runnerJob"
               ELSE IF in.jobInText THEN "parsed" ELSE "undefined"
    IN  [ status |-> status, job |-> job, success |-> success,
          level |-> LevelOf(success) ]

LogIdle ==
    /\ logPc = "idle"
    /\ logIn = [ empty |-> TRUE, ready |-> FALSE, started |-> FALSE,
                 ended |-> FALSE, succeeded |-> FALSE, jobInText |-> FALSE,
                 byName |-> FALSE, runnerFound |-> FALSE ]
    /\ logI = 1
    /\ logs = <<>>
    /\ logCalls = 0
    /\ logFirst = <<>>

LogInit ==
    /\ logPc = "idle"
    /\ logIn \in LogInputs
    /\ logI = 1
    /\ logs = <<>>
    /\ logCalls = 0
    /\ logFirst = <<>>

\* parseRunnerLog is called: no data returns [] (lines 360-361)
ParseRunnerLogCall ==
    /\ logPc \in {"idle", "done"}
    /\ logCalls < MaxParseCalls
    /\ logCalls' = logCalls + 1
    /\ logFirst' = IF logCalls = 1 THEN logs ELSE logFirst
    /\ logs' = <<>>
    /\ logI' = 1
    /\ logPc' = IF logIn.empty THEN "done" ELSE "loop"
    /\ UNCHANGED logIn
    /\ UNCHANGED <<wmVars, prVars, ccVars, upVars, sshVars>>

\* one turn of the loop over the statuses (lines 376-403)
ParseRunnerLogStatus ==
    /\ logPc = "loop"
    /\ logI <= Len(Statuses)
    /\ LET status == Statuses[logI]
       IN  IF ~PatternMatches(logIn, status)
           THEN /\ logs' = logs
                /\ logI' = logI + 1
                /\ logPc' = IF logI = Len(Statuses) THEN "done" ELSE "loop"
           ELSE IF status = "job_started" /\ logIn.byName /\ ~logIn.runnerFound
           THEN \* destructuring the undefined result of runnerByName throws
                /\ logs' = logs
                /\ logI' = logI
                /\ logPc' = "threw"
           ELSE /\ logs' = Append(logs, LogEvent(logIn, status))
                /\ logI' = logI + 1
                /\ logPc' = IF logI = Len(Statuses) THEN "done" ELSE "loop"
    /\ UNCHANGED <<logIn, logCalls, logFirst>>
    /\ UNCHANGED <<wmVars, prVars, ccVars, upVars, sshVars>>

LogNext == ParseRunnerLogCall \/ ParseRunnerLogStatus


(***************************************************************************)
(* prCreate.  Branch names and commit ids are strings of characters, a     *)
(* commit id is no longer than the eight characters of shaShort.  A git    *)
(* command acts on the repository and the remote as git does.              *)
(***************************************************************************)
Files == 1..MaxFiles

None == <<>>    \* an option that is not given (undefined)

EndsWith(s, suffix) ==
    /\ Len(suffix) <= Len(s)
    /\ SubSeq(s, Len(s) - Len(suffix) + 1, Len(s)) = suffix

CmlPr == <<"-", "c", "m", "l", "-", "p", "r", "-">>

\* source (line 555)
SourceBranch(branch, target, shaShort) ==
    IF branch # None THEN branch ELSE target \o CmlPr \o shaShort

BranchExists_Never(remote, source) == FALSE

\* git ls-remote <url> <source> lists the refs whose last components are
\* <source>; branchExists is whether its output includes source (557-564)
BranchExists(remote, source) ==
    \E b \in remote : b = source \/ EndsWith(b, <<"/">> \o source)

\* prs.find (lines 569-572): the first listed pull request whose source and
\* target are suffixes of the computed names; 0 when there is none
FindPr(prs, source, target) ==
    LET hits == {i \in 1..Len(prs) :
                    /\ EndsWith(source, prs[i].source)
                    /\ EndsWith(target, prs[i].target)}
    IN  IF hits = {} THEN 0
        ELSE CHOOSE i \in hits : \A j \in hits : i <= j

CommitMessage_Unmarked(message, shaShort, skipCi, autoMerge) ==
    IF message # None THEN message ELSE <<"CML PR for ">> \o shaShort

\* commitMessage (lines 582-585)
CommitMessage(message, shaShort, skipCi, autoMerge) ==
    LET base == IF message # None THEN message
                ELSE <<"CML PR for ">> \o shaShort
    IN  IF skipCi \/ (message = None /\ autoMerge = "none")
        THEN Append(base, " [skip ci]") ELSE base

\* renderPr (lines 527-533)
RenderPr(md, url) == [kind |-> "url", md |-> md, url |-> url]

\* a call that returns nothing, and a call that throws
Undefined == [kind |-> "undefined", md |-> FALSE, url |-> 0]
Threw == [kind |-> "threw", md |-> FALSE, url |-> 0]

\* the url the driver gives the next pull request it opens
NewUrl(prs) == Len(prs) + 1

\* the commit a commit on top of head makes
NewCommit(head) == head \o <<"'">>

PrInputs ==
    [ globsGiven : BOOLEAN,            \* globs.length
      globbed : SUBSET Files,          \* what globby(globs) finds
      branch : {None, <<"b">>},        \* opts.branch
      message : {None, <<"msg">>},         \* opts.message
      skipCi : BOOLEAN,
      autoMerge : {"none", "merge", "rebase", "squash"},
      md : BOOLEAN,
      fetchDepth : {"undefined", "unshallow"},   \* opts.unshallow
      drvSha : {None, <<"1">>},        \* driver.sha
      drvBranch : {None, <<"m">>} ]    \* driver.branch

PrIdle ==
    /\ prIn = [ globsGiven |-> FALSE, globbed |-> {}, branch |-> None,
                message |-> None, skipCi |-> FALSE, autoMerge |-> "none",
                md |-> FALSE, fetchDepth |-> "undefined", drvSha |-> None,
                drvBranch |-> None ]
    /\ gitFiles = {}
    /\ gitBranch = <<"m">>
    /\ gitHead = <<"1">>
    /\ gitLog = <<>>
    /\ gitLocal = {<<"m">>}
    /\ gitShallow = TRUE
    /\ gitRemote = {}
    /\ prList = <<>>
    /\ prPc = "off"
    /\ prCur = [sha |-> None, target |-> None, source |-> None, paths |-> {}]
    /\ prOps = <<>>
    /\ prCalls = 0
    /\ prRets = <<>>
    /\ prOpsLog = <<>>

\* the source branch the first call computes from the initial repository
FirstSource(in) ==
    SourceBranch(in.branch,
                 IF in.drvBranch # None THEN in.drvBranch ELSE <<"m">>,
                 IF in.drvSha # None THEN in.drvSha ELSE <<"1">>)

PrInit ==
    /\ prIn \in {in \in PrInputs : in.globsGiven \/ in.globbed = {}}
    /\ gitFiles \in SUBSET Files
    /\ gitBranch = <<"m">>
    /\ gitHead = <<"1">>
    /\ gitLog = <<>>
    /\ gitLocal = {<<"m">>}
    /\ gitShallow = TRUE
    \* the remote of an earlier run: nothing, the source branch, or a branch
    \* whose last component is the name of the source branch
    /\ gitRemote \in { {}, {FirstSource(prIn)}, {<<"x", "/">> \o FirstSource(prIn)} }
    \* the pull requests of the platform: none, or one whose names are
    \* suffixes of the computed ones
    /\ prList \in { <<>>, <<[source |-> <<"1">>, target |-> <<"m">>, url |-> 1]>> }
    /\ prPc = "idle"
    /\ prCur = [sha |-> None, target |-> None, source |-> None, paths |-> {}]
    /\ prOps = <<>>
    /\ prCalls = 0
    /\ prRets = <<>>
    /\ prOpsLog = <<>>

\* the call ends: it returns ret (or throws, ret = "threw")
PrReturn(ret, ops) ==
    /\ prPc' = "idle"
    /\ prRets' = Append(prRets, ret)
    /\ prOpsLog' = Append(prOpsLog, ops)
    /\ prOps' = <<>>
    /\ prCur' = [sha |-> None, target |-> None, source |-> None, paths |-> {}]

\* prCreate is called; ci(opts) sets the git configuration and fetches as
\* asked (lines 463-507, 525)
PrCreateCall ==
    /\ prPc = "idle"
    /\ prCalls < MaxPrCalls
    /\ prCalls' = prCalls + 1
    /\ prPc' = "status"
    /\ IF prIn.fetchDepth = "unshallow" /\ gitShallow
       THEN /\ prOps' = <<"config", "fetch">>
            /\ gitShallow' = FALSE
       ELSE /\ prOps' = <<"config">>
            /\ gitShallow' = gitShallow
    /\ UNCHANGED <<prIn, gitFiles, gitBranch, gitHead, gitLog, gitLocal, gitRemote,
                   prList, prCur, prRets, prOpsLog>>
    /\ UNCHANGED <<wmVars, logVars, ccVars, upVars, sshVars>>

\* git status and globby: the two early returns, else the names of the
\* branches (lines 535-555)
PrStatus ==
    /\ prPc = "status"
    /\ LET paths == prIn.globbed \cap gitFiles
           sha == IF prIn.drvSha # None THEN prIn.drvSha ELSE gitHead
           target == IF prIn.drvBranch # None THEN prIn.drvBranch ELSE gitBranch
       IN  IF (gitFiles = {} /\ prIn.globsGiven) \/ (paths = {} /\ prIn.globsGiven)
           THEN PrReturn(Undefined, prOps)
           ELSE /\ prCur' = [sha |-> sha, target |-> target,
                             source |-> SourceBranch(prIn.branch, target, sha),
                             paths |-> paths]
                /\ prPc' = "probe"
                /\ UNCHANGED <<prRets, prOpsLog, prOps>>
    /\ UNCHANGED <<prIn, gitFiles, gitBranch, gitHead, gitLog, gitLocal, gitShallow,
                   gitRemote, prList, prCalls>>
    /\ UNCHANGED <<wmVars, logVars, ccVars, upVars, sshVars>>

\* git ls-remote; with the branch on the remote, the listed pull requests
\* are searched and a found one is returned (lines 557-574)
PrProbe ==
    /\ prPc = "probe"
    /\ IF BranchExists(gitRemote, prCur.source)
       THEN LET i == FindPr(prList, prCur.source, prCur.target)
            IN  IF i # 0
                THEN PrReturn(RenderPr(prIn.md, prList[i].url),
                              prOps \o <<"ls-remote", "prs">>)
                ELSE /\ prPc' = "create"
                     /\ prOps' = prOps \o <<"ls-remote", "prs">>
                     /\ UNCHANGED <<prRets, prOpsLog, prCur>>
       ELSE /\ prPc' = "push"
            /\ prOps' = Append(prOps, "ls-remote")
            /\ UNCHANGED <<prRets, prOpsLog, prCur>>
    /\ UNCHANGED <<prIn, gitFiles, gitBranch, gitHead, gitLog, gitLocal, gitShallow,
                   gitRemote, prList, prCalls>>
    /\ UNCHANGED <<wmVars, logVars, ccVars, upVars, sshVars>>

\* fetch, checkout, add, commit and push (lines 576-589); git checkout -b
\* fails when the local branch exists
PrPush ==
    /\ prPc = "push"
    /\ LET withPaths == prCur.paths # {}
           before == <<"fetch">> \o (IF withPaths THEN <<"checkout -B">> ELSE <<>>)
           local1 == IF withPaths THEN gitLocal \cup {prCur.target} ELSE gitLocal
       IN  IF prCur.source \in local1
           THEN /\ PrReturn(Threw, prOps \o before)
                /\ gitLocal' = local1
                /\ gitBranch' = IF withPaths THEN prCur.target ELSE gitBranch
                /\ UNCHANGED <<gitFiles, gitHead, gitRemote, gitLog>>
           ELSE /\ prOps' = prOps \o before \o <<"checkout -b">>
                       \o (IF withPaths
                           THEN <<"add", "commit">> ELSE <<>>)
                       \o <<"push">>
                /\ gitLocal' = local1 \cup {prCur.source}
                /\ gitBranch' = prCur.source
                /\ gitFiles' = gitFiles \ prCur.paths
                /\ gitHead' = IF withPaths THEN NewCommit(prCur.sha) ELSE gitHead
                /\ gitLog' = IF withPaths
                             THEN Append(gitLog,
                                         CommitMessage(prIn.message, prCur.sha,
                                                       prIn.skipCi, prIn.autoMerge))
                             ELSE gitLog
                /\ gitRemote' = gitRemote \cup {prCur.source}
                /\ prPc' = "create"
                /\ UNCHANGED <<prRets, prOpsLog, prCur>>
    /\ UNCHANGED <<prIn, gitShallow, prList, prCalls>>
    /\ UNCHANGED <<wmVars, logVars, ccVars, upVars, sshVars>>

\* the driver opens a pull request, or fails (lines 592-611)
PrDriverCreate ==
    /\ prPc = "create"
    /\ \/ /\ prList' = Append(prList, [source |-> prCur.source,
                                       target |-> prCur.target,
                                       url |-> NewUrl(prList)])
          /\ PrReturn(RenderPr(prIn.md, NewUrl(prList)), Append(prOps, "prCreate"))
       \/ /\ prList' = prList
          /\ PrReturn(Threw, Append(prOps, "prCreate"))
    /\ UNCHANGED <<prIn, gitFiles, gitBranch, gitHead, gitLog, gitLocal, gitShallow,
                   gitRemote, prCalls>>
    /\ UNCHANGED <<wmVars, logVars, ccVars, upVars, sshVars>>

PrNext == PrCreateCall \/ PrStatus \/ PrProbe \/ PrPush \/ PrDriverCreate

(***************************************************************************)
(* commentCreate.  The caller's call is execution 0; the n-th cycle of the *)
(* watch handler (the nested commentCreate and the deletion of the trigger *)
(* file) is execution n.  An execution is at one of its awaits:            *)
(*   "read"     before fs.readFile of the report                            *)
(*   "publish"  before the visitors of publishLocalFiles start              *)
(*   "uploads"  in Promise.all, uploads pending                             *)
(*   "watch"    before the watcher is set up (watch only)                   *)
(*   "waitForever"  in waitForever (watch only)                             *)
(*   "list"     before the driver lists the comments (update only)          *)
(*   "write"    before the driver creates or updates the comment            *)
(*   "unlink"   before fs.unlink of the trigger file (handler only)         *)
(***************************************************************************)
Assets == {"a1", "a2"}    \* the local references of the report

CcWorkflow == <<"7">>     \* drv.workflowId
CcRun == <<"1">>          \* drv.runId
CcEarlierRun == <<"2">>   \* drv.runId of an earlier run of the workflow

\* watermark (lines 208-214)
Watermark(opts) ==
    IF opts.rmWatermark THEN <<>>
    ELSE genWatermark(opts.label, CcWorkflow, CcRun)

\* the url of a reference: as written in the report, or as hosted
LocalUrl == [host |-> "local", cml |-> FALSE, cache |-> TRUE]

\* watermarkUri appends the cml query parameter
watermarkUri(uri) == [uri EXCEPT !.cml = TRUE]

\* preventcacheUri makes the uri one no cache has
preventcacheUri(uri) == [uri EXCEPT !.cache = FALSE]

\* publish (lines 330-353): the uri of the upload, watermarked unless
\* rmWatermark, then cache-busted
PublishedUrl(opts) ==
    LET uploaded == [host |-> "asset", cml |-> FALSE, cache |-> TRUE]
    IN  preventcacheUri(IF opts.rmWatermark THEN uploaded
                        ELSE watermarkUri(uploaded))

\* how an upload ends: with the uri, or with an error of this code
UploadOutcomes == {"ok", "ENOENT", "other"}

VisitorSwallows_Any(code) == TRUE

\* the catch of the visitor (lines 248-250) swallows the error
VisitorSwallows(code) == code = "ENOENT"

ConfigError_Unchecked(rmWatermark, update) == FALSE

\* rmWatermark && update (line 183)
ConfigError(rmWatermark, update) == rmWatermark /\ update

\* update of the nested call (line 278)
CycleUpdate(update, isFirst) == update \/ ~isFirst

HandlerAccepts_Unlocked(locked) == TRUE

HandlerAccepts_Reentrant(locked) == locked \/ ~locked

\* the handler goes on with an event (line 272)
HandlerAccepts(locked) == ~locked

AfterCycle_NoCatch(outcome, locked, isFirst) ==
    IF outcome = "ok" THEN [lock |-> FALSE, first |-> FALSE]
    ELSE [lock |-> locked, first |-> isFirst]

\* first and lock after the try statement of the handler (lines 284-288)
AfterCycle(outcome, locked, isFirst) == [lock |-> FALSE, first |-> FALSE]

DeletesTrigger_AnyEvent(event, path, triggerFile) == path = triggerFile

\* the event makes the handler delete the trigger file (line 281)
DeletesTrigger(event, path, triggerFile) ==
    event # "unlink" /\ path = triggerFile

updatableComment_First(cs, watermark) ==
    LET hits == {k \in 1..Len(cs) : BodyMatches(cs[k].body, watermark)}
    IN  IF hits = {} THEN 0
        ELSE cs[CHOOSE k \in hits : \A j \in hits : k <= j].id

updatableComment_None(cs, watermark) == 0

\* updatableComment (lines 295-299): the id of the last listed comment
\* whose body includes the watermark, 0 when there is none
updatableComment(cs, watermark) ==
    LET hits == {k \in 1..Len(cs) : BodyMatches(cs[k].body, watermark)}
    IN  IF hits = {} THEN 0
        ELSE cs[CHOOSE k \in hits : \A j \in hits : j <= k].id

NewExec(kind, update, event, path) ==
    [ kind |-> kind, update |-> update, pc |-> "read",
      event |-> event, path |-> path,
      nodes |-> [a \in Assets |-> "todo"],
      urls |-> [a \in Assets |-> LocalUrl],
      match |-> 0, op |-> "none", id |-> 0, io |-> {} ]

Ret(outcome, io, op, id) ==
    [outcome |-> outcome, io |-> io, op |-> op, id |-> id]

Remove(f, i) == [j \in DOMAIN f \ {i} |-> f[j]]
Put(f, i, r) == [j \in DOMAIN f \cup {i} |-> IF j = i THEN r ELSE f[j]]

AfterPublish_Lists(e) == IF e.kind = "outer" THEN "watch" ELSE "list"

AfterPublish_NoWatch(e) == IF e.update THEN "list" ELSE "write"

\* the await that follows the report and its publishing (lines 267, 308)
AfterPublish(e) ==
    IF e.kind = "outer" THEN "watch"
    ELSE IF e.update THEN "list" ELSE "write"

\* execution i goes on as e
Continue(i, e) ==
    /\ ex' = [ex EXCEPT ![i] = e]
    /\ UNCHANGED <<rets, lock, first, lastOutcome, ended>>

\* execution i, being e, ends: the caller's call returns or throws; a cycle
\* leaves the try statement of the handler
EndExec(i, e, outcome) ==
    /\ ex' = Remove(ex, i)
    /\ IF e.kind = "cycle"
       THEN /\ lock' = AfterCycle(outcome, lock, first).lock
            /\ first' = AfterCycle(outcome, lock, first).first
            /\ lastOutcome' = outcome
            /\ ended' = ended + 1
            /\ rets' = rets
       ELSE /\ rets' = Append(rets, Ret(outcome, e.io, e.op, e.id))
            /\ UNCHANGED <<lock, first, lastOutcome, ended>>

PriorComment(n, run, label) ==
    [ id |-> n, body |-> Report(UserReport, genWatermark(label, CcWorkflow, run)),
      urls |-> [a \in Assets |-> LocalUrl], origin |-> "before" ]

OtherComment(n) ==
    [ id |-> n, body |-> <<"h", "i">>,
      urls |-> [a \in Assets |-> LocalUrl], origin |-> "before" ]

\* the comments of the target before the first call: none, one of somebody
\* else, one of an earlier run, two of this run
PriorComments(label) ==
    { <<>>,
      <<OtherComment(1)>>,
      <<PriorComment(1, CcEarlierRun, label), OtherComment(2)>>,
      <<PriorComment(1, CcRun, label), OtherComment(2),
        PriorComment(3, CcRun, label)>> }

CcOptions ==
    [ update : BOOLEAN, rmWatermark : BOOLEAN, publish : BOOLEAN,
      watch : BOOLEAN,
      hasReport : BOOLEAN,                   \* opts.report is given
      triggerFile : {"none", "trigger", "md"},
      label : {<<>>, RunPlaceholder} ]       \* opts.watermarkTitle

CcStart(opts) ==
    /\ ccOpts = opts
    /\ comments0 \in PriorComments(opts.label)
    /\ comments = comments0
    /\ ex = <<>>
    /\ rets = <<>>
    /\ calls = 0
    /\ lock = FALSE
    /\ first = TRUE
    /\ watching = FALSE
    /\ watched = {}
    /\ delivered = 0
    /\ started = 0
    /\ ended = 0
    /\ lastOutcome = "none"
    /\ orphans = 0

\* the caller calls commentCreate without watch
CcInit ==
    \E opts \in CcOptions :
        /\ ~opts.watch /\ opts.triggerFile = "none"
        /\ CcStart(opts)
        /\ triggerExists = FALSE

\* the caller calls commentCreate with watch, the report in markdownFile,
\* the default label; a trigger file of its own is not there yet
WatchInit ==
    \E opts \in CcOptions :
        /\ opts.watch /\ ~opts.hasReport /\ opts.label = <<>>
        /\ CcStart(opts)
        /\ Len(comments0) \in {0, 2}
        /\ triggerExists = (opts.triggerFile = "md")

CcIdle ==
    /\ CcStart([ update |-> FALSE, rmWatermark |-> FALSE, publish |-> FALSE,
                 watch |-> FALSE, hasReport |-> TRUE, triggerFile |-> "none",
                 label |-> <<>> ])
    /\ comments0 = <<>>
    /\ triggerExists = FALSE

\* commentCreate is called (lines 165-184): the configuration is checked
CommentCreateCall ==
    /\ DOMAIN ex = {}
    /\ ~watching
    /\ calls < MaxCalls
    /\ ccOpts.watch => calls = 0
    /\ calls' = calls + 1
    /\ IF ConfigError(ccOpts.rmWatermark, ccOpts.update)
       THEN /\ rets' = Append(rets, Ret("config", {}, "none", 0))
            /\ ex' = ex
       ELSE /\ ex' = Put(ex, 0, NewExec(IF ccOpts.watch THEN "outer" ELSE "direct",
                                        ccOpts.update, "none", "none"))
            /\ rets' = rets
    /\ UNCHANGED <<ccOpts, comments0, comments, lock, first, watching, watched,
                   triggerExists, delivered, started, ended, lastOutcome, orphans>>
    /\ UNCHANGED <<wmVars, logVars, prVars, upVars, sshVars>>

\* the report is read unless it is given (lines 216-223); a failure is
\* thrown unless watch is set
ReadReport(i) ==
    /\ i \in DOMAIN ex
    /\ ex[i].pc = "read"
    /\ LET e == ex[i]
           next == IF ccOpts.publish THEN "publish" ELSE AfterPublish(e)
           e2 == [e EXCEPT !.io = @ \cup {"read"}]
           gone == ccOpts.triggerFile = "md" /\ ~triggerExists
       IN  IF ccOpts.hasReport
           THEN Continue(i, [e EXCEPT !.pc = next])
           ELSE \/ /\ ~gone
                   /\ Continue(i, [e2 EXCEPT !.pc = next])
                \/ IF e.kind = "outer"
                   THEN Continue(i, [e2 EXCEPT !.pc = next])
                   ELSE EndExec(i, e2, "threw")
    /\ UNCHANGED <<ccOpts, comments0, comments, calls, watching, watched,
                   triggerExists, delivered, started, orphans>>
    /\ UNCHANGED <<wmVars, logVars, prVars, upVars, sshVars>>

\* the visitors of publishLocalFiles start (lines 227-254): each adds its
\* path to the watcher when watching without a trigger file, and uploads
PublishStart(i) ==
    /\ i \in DOMAIN ex
    /\ ex[i].pc = "publish"
    /\ LET e == ex[i]
           adds == ccOpts.triggerFile = "none" /\ e.kind = "outer"
       IN  /\ Continue(i, [e EXCEPT !.pc = "uploads",
                                    !.nodes = [a \in Assets |-> "pending"],
                                    !.io = @ \cup {"upload"}
                                             \cup (IF adds THEN {"watch"} ELSE {})])
           /\ watched' = IF adds THEN watched \cup {"asset"} ELSE watched
    /\ UNCHANGED <<ccOpts, comments0, comments, calls, watching,
                   triggerExists, delivered, started, orphans>>
    /\ UNCHANGED <<wmVars, logVars, prVars, upVars, sshVars>>

\* one upload ends (lines 242-250); Promise.all ends with the last upload,
\* or with the first error that the visitor does not swallow
UploadSettles(i, a) ==
    /\ i \in DOMAIN ex
    /\ ex[i].pc = "uploads"
    /\ ex[i].nodes[a] = "pending"
    /\ \E out \in UploadOutcomes :
         LET e == ex[i]
             others == {b \in Assets \ {a} : e.nodes[b] = "pending"}
             e2 == IF out = "ok"
                   THEN [e EXCEPT !.nodes[a] = "done", !.urls[a] = PublishedUrl(ccOpts)]
                   ELSE [e EXCEPT !.nodes[a] = IF out = "ENOENT" THEN "kept"
                                                ELSE "failed"]
         IN  IF out = "ok" \/ VisitorSwallows(out)
             THEN /\ Continue(i, IF others = {}
                                 THEN [e2 EXCEPT !.pc = AfterPublish(e)] ELSE e2)
                  /\ orphans' = orphans
             ELSE /\ EndExec(i, e, "threw")
                  /\ orphans' = orphans + Cardinality(others)
    /\ UNCHANGED <<ccOpts, comments0, comments, calls, watching, watched,
                   triggerExists, delivered, started>>
    /\ UNCHANGED <<wmVars, logVars, prVars, upVars, sshVars>>

\* an upload of an execution that has ended ends
OrphanSettles ==
    /\ orphans > 0
    /\ orphans' = orphans - 1
    /\ UNCHANGED <<ccOpts, comments0, comments, ex, rets, calls, lock, first,
                   watching, watched, triggerExists, delivered, started, ended,
                   lastOutcome>>
    /\ UNCHANGED <<wmVars, logVars, prVars, upVars, sshVars>>

\* the await of waitForever(): a promise that never settles, so that no step
\* leaves it
waitForever == "waitForever"

\* watch (lines 267-291): the trigger file or else the report is added to
\* the watcher, the handler is registered, and the call waits forever
WatchRegister(i) ==
    /\ i \in DOMAIN ex
    /\ ex[i].pc = "watch"
    /\ Continue(i, [ex[i] EXCEPT !.pc = waitForever, !.io = @ \cup {"watch"}])
    /\ watched' = watched \cup {IF ccOpts.triggerFile # "none"
                                THEN ccOpts.triggerFile ELSE "md"}
    /\ watching' = TRUE
    /\ UNCHANGED <<ccOpts, comments0, comments, calls, triggerExists,
                   delivered, started, orphans>>
    /\ UNCHANGED <<wmVars, logVars, prVars, upVars, sshVars>>

\* the driver lists the comments of the target, or fails (lines 308-309)
ListComments(i) ==
    /\ i \in DOMAIN ex
    /\ ex[i].pc = "list"
    /\ LET e == [ex[i] EXCEPT !.io = @ \cup {"list"}]
       IN  \/ Continue(i, [e EXCEPT !.pc = "write",
                                    !.match = updatableComment(comments, Watermark(ccOpts))])
           \/ EndExec(i, e, "threw")
    /\ UNCHANGED <<ccOpts, comments0, comments, calls, watching, watched,
                   triggerExists, delivered, started, orphans>>
    /\ UNCHANGED <<wmVars, logVars, prVars, upVars, sshVars>>

\* what follows the driver's create or update: the caller's call returns;
\* the handler deletes the trigger file or leaves the try statement
AfterWrite(i, e) ==
    IF e.kind = "cycle" /\ DeletesTrigger(e.event, e.path, ccOpts.triggerFile)
    THEN Continue(i, [e EXCEPT !.pc = "unlink"])
    ELSE EndExec(i, e, "ok")

\* the driver updates the found comment or creates one, or fails
\* (lines 311-321)
WriteComment(i) ==
    /\ i \in DOMAIN ex
    /\ ex[i].pc = "write"
    /\ LET e == ex[i]
           body == Report(UserReport, Watermark(ccOpts))
       IN  IF e.match # 0
           THEN LET e2 == [e EXCEPT !.io = @ \cup {"update"}, !.op = "update",
                                    !.id = e.match]
                IN  \/ /\ comments' =
                            [k \in 1..Len(comments) |->
                               IF comments[k].id = e.match
                               THEN [comments[k] EXCEPT !.body = body, !.urls = e.urls]
                               ELSE comments[k]]
                       /\ AfterWrite(i, e2)
                    \/ /\ comments' = comments
                       /\ EndExec(i, [e2 EXCEPT !.op = "none", !.id = 0], "threw")
           ELSE LET e2 == [e EXCEPT !.io = @ \cup {"create"}, !.op = "create",
                                    !.id = Len(comments) + 1]
                IN  \/ /\ comments' =
                            Append(comments, [id |-> Len(comments) + 1, body |-> body,
                                              urls |-> e.urls, origin |-> "session"])
                       /\ AfterWrite(i, e2)
                    \/ /\ comments' = comments
                       /\ EndExec(i, [e2 EXCEPT !.op = "none", !.id = 0], "threw")
    /\ UNCHANGED <<ccOpts, comments0, calls, watching, watched,
                   triggerExists, delivered, started, orphans>>
    /\ UNCHANGED <<wmVars, logVars, prVars, upVars, sshVars>>

\* fs.unlink of the trigger file (lines 281-283): it fails when the file is
\* not there
UnlinkTrigger(i) ==
    /\ i \in DOMAIN ex
    /\ ex[i].pc = "unlink"
    /\ IF triggerExists
       THEN /\ triggerExists' = FALSE
            /\ EndExec(i, [ex[i] EXCEPT !.io = @ \cup {"unlink"}], "ok")
       ELSE /\ triggerExists' = triggerExists
            /\ EndExec(i, ex[i], "threw")
    /\ UNCHANGED <<ccOpts, comments0, comments, calls, watching, watched,
                   delivered, started, orphans>>
    /\ UNCHANGED <<wmVars, logVars, prVars, upVars, sshVars>>

EventTypes == {"add", "change", "unlink"}

\* the watcher delivers an event of a watched path to the handler (lines
\* 271-280): with the lock held the handler returns; else it takes the lock
\* and calls commentCreate, which checks the configuration
WatchEvent(event, path) ==
    /\ watching
    /\ path \in watched
    /\ delivered < MaxEvents
    /\ delivered' = delivered + 1
    /\ triggerExists' = IF path = ccOpts.triggerFile
                        THEN event # "unlink" ELSE triggerExists
    /\ IF ~HandlerAccepts(lock)
       THEN UNCHANGED <<ex, lock, first, started, ended, lastOutcome>>
       ELSE /\ started' = started + 1
            /\ IF ConfigError(ccOpts.rmWatermark, CycleUpdate(ccOpts.update, first))
               THEN /\ lock' = AfterCycle("config", TRUE, first).lock
                    /\ first' = AfterCycle("config", TRUE, first).first
                    /\ lastOutcome' = "config"
                    /\ ended' = ended + 1
                    /\ ex' = ex
               ELSE /\ lock' = TRUE
                    /\ ex' = Put(ex, started + 1,
                                 NewExec("cycle", CycleUpdate(ccOpts.update, first),
                                         event, path))
                    /\ UNCHANGED <<first, lastOutcome, ended>>
    /\ UNCHANGED <<ccOpts, comments0, comments, rets, calls, watching, watched,
                   orphans>>
    /\ UNCHANGED <<wmVars, logVars, prVars, upVars, sshVars>>

CcNext ==
    \/ CommentCreateCall
    \/ \E i \in DOMAIN ex : ReadReport(i)
    \/ \E i \in DOMAIN ex : PublishStart(i)
    \/ \E i \in DOMAIN ex, a \in Assets : UploadSettles(i, a)
    \/ OrphanSettles
    \/ \E i \in DOMAIN ex : ListComments(i)
    \/ \E i \in DOMAIN ex : WriteComment(i)

WatchNext ==
    \/ CcNext
    \/ \E i \in DOMAIN ex : WatchRegister(i)
    \/ \E i \in DOMAIN ex : UnlinkTrigger(i)
    \/ \E event \in EventTypes, path \in watched : WatchEvent(event, path)

(***************************************************************************)
(* upload, and the visitor of publishLocalFiles that calls it through      *)
(* publish.  The text of the response is a string of characters.           *)
(***************************************************************************)
\* the status codes the asset store answers with
HttpStatuses == {200, 201, 404, 500}

\* response.text()
Bodies == { <<>>, <<"u">>, <<"u", "v">>, <<" ">> }

UploadInputs ==
    [ hasPath : BOOLEAN,       \* opts.path, else opts.buffer
      exists : BOOLEAN,        \* the file of opts.path is there
      answers : BOOLEAN,       \* fetch resolves with a response
      status : HttpStatuses,   \* response.status
      body : Bodies ]          \* response.text()

NoResult ==
    [kind |-> "none", uri |-> <<>>, mime |-> "none", size |-> 0, status |-> 0,
     code |-> "none"]

\* a rejection that is not the one of upload itself: of fs or of fetch
Rejected(code) == [NoResult EXCEPT !.kind = "error", !.code = code]

UploadResult_Unchecked(uri, mime, size, status) ==
    [NoResult EXCEPT !.kind = "value", !.uri = uri, !.mime = mime, !.size = size]

\* the end of upload (lines 76-83): the error with the status code when the
\* text of the response is empty, else uri, mime and size
UploadResult(uri, mime, size, status) ==
    IF uri = <<>>
    THEN [NoResult EXCEPT !.kind = "empty", !.status = status]
    ELSE [NoResult EXCEPT !.kind = "value", !.uri = uri, !.mime = mime,
                          !.size = size]

\* the reference as written in the report
UpLocalNode == [uri |-> <<"f">>, rewritten |-> FALSE]

UpIdle ==
    /\ upIn = [hasPath |-> TRUE, exists |-> TRUE, answers |-> TRUE,
               status |-> 200, body |-> <<"u">>]
    /\ upPc = "off"
    /\ upRet = NoResult
    /\ upNode = UpLocalNode

UpInit ==
    /\ upIn \in UploadInputs
    /\ upPc = "idle"
    /\ upRet = NoResult
    /\ upNode = UpLocalNode

\* the visitor calls publish, which calls upload
UploadCall ==
    /\ upPc = "idle"
    /\ upPc' = "data"
    /\ UNCHANGED <<upIn, upRet, upNode>>
    /\ UNCHANGED <<wmVars, logVars, prVars, ccVars, sshVars>>

\* fetchUploadData: fs.promises.stat rejects when the file is not there
UploadData ==
    /\ upPc = "data"
    /\ IF upIn.hasPath /\ ~upIn.exists
       THEN /\ upRet' = Rejected("ENOENT")
            /\ upPc' = "ended"
       ELSE /\ upRet' = upRet
            /\ upPc' = "fetch"
    /\ UNCHANGED <<upIn, upNode>>
    /\ UNCHANGED <<wmVars, logVars, prVars, ccVars, sshVars>>

\* the POST to the asset store
UploadFetch ==
    /\ upPc = "fetch"
    /\ IF upIn.answers
       THEN /\ upRet' = upRet
            /\ upPc' = "text"
       ELSE /\ upRet' = Rejected("fetch")
            /\ upPc' = "ended"
    /\ UNCHANGED <<upIn, upNode>>
    /\ UNCHANGED <<wmVars, logVars, prVars, ccVars, sshVars>>

\* the text of the response is the uri
UploadText ==
    /\ upPc = "text"
    /\ upRet' = UploadResult(upIn.body, "mime", 1, upIn.status)
    /\ upPc' = "ended"
    /\ UNCHANGED <<upIn, upNode>>
    /\ UNCHANGED <<wmVars, logVars, prVars, ccVars, sshVars>>

\* the visitor assigns node.url when publish resolved
UploadVisitor ==
    /\ upPc = "ended"
    /\ upPc' = "done"
    /\ upNode' = IF upRet.kind = "value"
                 THEN [uri |-> upRet.uri, rewritten |-> TRUE]
                 ELSE upNode
    /\ UNCHANGED <<upIn, upRet>>
    /\ UNCHANGED <<wmVars, logVars, prVars, ccVars, sshVars>>

UpNext == UploadCall \/ UploadData \/ UploadFetch \/ UploadText \/ UploadVisitor

(***************************************************************************)
(* sshConnection.  trials and the count of the attempts are kept up to     *)
(* TrialsCap, which is past every maxTries of the model: a greater value   *)
(* compares with maxTries as TrialsCap does.                               *)
(***************************************************************************)
\* maxTries when the caller gives none
DefaultMaxTries == 5

\* maxTries of the call: what the caller gives, the code checks none of it
SshMaxTries == {-1} \cup (0..MaxTriesBound) \cup {DefaultMaxTries}

TrialsCap ==
    (IF MaxTriesBound > DefaultMaxTries THEN MaxTriesBound ELSE DefaultMaxTries) + 2

UpToCap(n) == IF n < TrialsCap THEN n + 1 ELSE n

\* the errors ssh.connect rejects with
SshErrors == {"ECONNREFUSED", "ETIMEDOUT"}

\* maxTries === trials: the catch rethrows
GivesUp(maxTries, trials) == maxTries = trials

SshIdle ==
    /\ sshMaxTries = DefaultMaxTries
    /\ sshPc = "off"
    /\ sshTrials = 0
    /\ sshAttempts = 0
    /\ sshErr = "none"
    /\ sshThrown = "none"

SshInit ==
    /\ sshMaxTries \in SshMaxTries
    /\ sshPc = "idle"
    /\ sshTrials = 0
    /\ sshAttempts = 0
    /\ sshErr = "none"
    /\ sshThrown = "none"

\* sshConnection is called: trials = 0 and the loop is entered
SshCall ==
    /\ sshPc = "idle"
    /\ sshPc' = "connect"
    /\ UNCHANGED <<sshMaxTries, sshTrials, sshAttempts, sshErr, sshThrown>>
    /\ UNCHANGED <<wmVars, logVars, prVars, ccVars, upVars>>

\* ssh.connect resolves: break, and the connection is returned
SshConnected ==
    /\ sshPc = "connect"
    /\ sshAttempts' = UpToCap(sshAttempts)
    /\ sshPc' = "returned"
    /\ UNCHANGED <<sshMaxTries, sshTrials, sshErr, sshThrown>>
    /\ UNCHANGED <<wmVars, logVars, prVars, ccVars, upVars>>

\* ssh.connect rejects with err: the catch rethrows it or counts the trial
\* and sleeps
SshConnectFails(err) ==
    /\ sshPc = "connect"
    /\ sshAttempts' = UpToCap(sshAttempts)
    /\ sshErr' = err
    /\ IF GivesUp(sshMaxTries, sshTrials)
       THEN /\ sshPc' = "threw"
            /\ sshThrown' = err
            /\ sshTrials' = sshTrials
       ELSE /\ sshPc' = "sleep"
            /\ sshThrown' = sshThrown
            /\ sshTrials' = UpToCap(sshTrials)
    /\ UNCHANGED sshMaxTries
    /\ UNCHANGED <<wmVars, logVars, prVars, ccVars, upVars>>

\* sleep(10) ends and the loop goes round
SshSleepEnds ==
    /\ sshPc = "sleep"
    /\ sshPc' = "connect"
    /\ UNCHANGED <<sshMaxTries, sshTrials, sshAttempts, sshErr, sshThrown>>
    /\ UNCHANGED <<wmVars, logVars, prVars, ccVars, upVars>>

SshNext ==
    \/ SshCall
    \/ SshConnected
    \/ \E err \in SshErrors : SshConnectFails(err)
    \/ SshSleepEnds

(***************************************************************************)
(* The specifications: one per part of the program; the variables of the   *)
(* other parts stay as they are.                                           *)
(***************************************************************************)
InitWatermark == WmInit /\ LogIdle /\ PrIdle /\ CcIdle /\ UpIdle /\ SshIdle

SpecWatermark == InitWatermark /\ [][WmNext]_vars

InitRunnerLog == LogInit /\ WmIdle /\ PrIdle /\ CcIdle /\ UpIdle /\ SshIdle

InitPr == PrInit /\ WmIdle /\ LogIdle /\ CcIdle /\ UpIdle /\ SshIdle

SpecPr == InitPr /\ [][PrNext]_vars

InitComment == CcInit /\ WmIdle /\ LogIdle /\ PrIdle /\ UpIdle /\ SshIdle

SpecComment == InitComment /\ [][CcNext]_vars

InitWatch == WatchInit /\ WmIdle /\ LogIdle /\ PrIdle /\ UpIdle /\ SshIdle

SpecWatch == InitWatch /\ [][WatchNext]_vars

InitCommentCreate == (CcInit \/ WatchInit) /\ WmIdle /\ LogIdle /\ PrIdle /\ UpIdle /\ SshIdle

SpecCommentCreate == InitCommentCreate /\ [][WatchNext]_vars

SpecRunnerLog == InitRunnerLog /\ [][LogNext]_vars

InitUpload == UpInit /\ WmIdle /\ LogIdle /\ PrIdle /\ CcIdle /\ SshIdle

SpecUpload == InitUpload /\ [][UpNext]_vars

InitSsh == SshInit /\ WmIdle /\ LogIdle /\ PrIdle /\ CcIdle /\ UpIdle

\* every attempt settles and every sleep ends
SpecSsh == InitSsh /\ [][SshNext]_vars /\ WF_vars(SshNext)

(***************************************************************************)
(* C8: the watermark of a run is found in the report that run posted; a    *)
(* run with another run id does not find its watermark there, provided     *)
(* the label holds the {run} placeholder.                                  *)
(***************************************************************************)
C8_WatermarkRoundTrip ==
    wmPc = "matched" =>
        /\ wmFound
        /\ (Includes(wmLabel, RunPlaceholder) /\ wmRun # wmRun2) => ~wmFound2
        /\ ~Includes(wmLabel, RunPlaceholder)
             /\ ~Includes(ReplaceFirst(wmLabel, WorkflowPlaceholder, wmWorkflow),
                          RunPlaceholder)
             => wmToken2 = wmToken /\ wmFound2

\* a label with {run} and an escaped character, two different runs, matched
C8_Witness ==
    /\ wmPc = "matched"
    /\ wmLabel = <<"_">> \o RunPlaceholder
    /\ wmRun # wmRun2
    /\ wmFound
    /\ ~wmFound2

\* C8 as stated: with any label, a run with another run id does not find
\* its watermark in the report
C8_AsStated ==
    (wmPc = "matched" /\ wmRun # wmRun2) => (wmFound /\ ~wmFound2)

(***************************************************************************)
(* C9: a text that matches only the job_started pattern gives exactly one  *)
(* event, of status job_started, with success undefined and a level that   *)
(* is not error.                                                           *)
(***************************************************************************)
C9_JobStartedAlone ==
    (logPc = "done" /\ ~logIn.empty
       /\ logIn.started /\ ~logIn.ready /\ ~logIn.ended)
    => /\ Len(logs) = 1
       /\ logs[1].status = "job_started"
       /\ logs[1].success = "undefined"
       /\ logs[1].level # "error"

(***************************************************************************)
(* C6: prCreate called twice in a row with the same options returns the    *)
(* same pull request url both times, and the second call does not push.    *)
(***************************************************************************)
C6_Idempotent ==
    (Len(prRets) >= 2 /\ prRets[1].kind = "url")
    => /\ prRets[2] = prRets[1]
       /\ \A k \in 1..Len(prOpsLog[2]) : prOpsLog[2][k] # "push"

(***************************************************************************)
(* Of the comments and the executions.                                     *)
(***************************************************************************)
\* the comments whose body includes the watermark of the options
Matching(cs) ==
    {k \in 1..Len(cs) : BodyMatches(cs[k].body, Watermark(ccOpts))}

\* the cycles of the handler in flight
Cycles == {i \in DOMAIN ex : ex[i].kind = "cycle"}

\* the comments created since the first call
Created == {k \in 1..Len(comments) : comments[k].origin = "session"}

(***************************************************************************)
(* C1: two calls with update, from a target without a matching comment,    *)
(* that both succeed: the first creates a comment, the second updates the  *)
(* comment of that id, and one comment carries the watermark.              *)
(***************************************************************************)
C1_SecondCallUpdates ==
    (/\ ccOpts.update
     /\ Matching(comments0) = {}
     /\ Len(rets) >= 2
     /\ rets[1].outcome = "ok"
     /\ rets[2].outcome = "ok")
    => /\ rets[1].op = "create"
       /\ rets[2].op = "update"
       /\ rets[2].id = rets[1].id
       /\ Cardinality(Matching(comments)) = 1
       /\ Len(comments) = Len(comments0) + 1

\* both calls succeeded beside comments of others and of an earlier run
C1_Witness ==
    /\ ccOpts.update
    /\ Matching(comments0) = {}
    /\ Len(comments0) = 2
    /\ Len(rets) = 2
    /\ rets[1].op = "create"
    /\ rets[2].op = "update"
    /\ DOMAIN ex = {}

(***************************************************************************)
(* C2: at most one cycle of the handler is in flight, the lock is held     *)
(* exactly while one is, and an event delivered while the lock is held     *)
(* starts no cycle and leaves nothing behind for later.                    *)
(***************************************************************************)
C2_OneCycleInFlight ==
    /\ [](Cardinality(Cycles) <= 1 /\ (lock <=> Cycles # {}))
    /\ [][(lock /\ delivered' = delivered + 1)
            => (/\ started' = started
                /\ ex' = ex
                /\ lock' = lock
                /\ first' = first
                /\ comments' = comments
                /\ rets' = rets)]_vars

\* an event was dropped while a cycle is in flight
C2_Witness ==
    /\ lock
    /\ Cardinality(Cycles) = 1
    /\ started = 1
    /\ delivered = 2

(***************************************************************************)
(* C3: a cycle starts only with the delivery of an event that finds no     *)
(* cycle in flight; the events delivered while a cycle is in flight start  *)
(* no cycle, neither then nor when the cycle completes: fewer than two,    *)
(* whatever their number.                                                  *)
(***************************************************************************)
C3_BurstStartsNoCycle ==
    /\ [][started' # started
            => (/\ Cycles = {}
                /\ ended = started
                /\ delivered' = delivered + 1
                /\ started' = started + 1)]_vars
    /\ [][ended' # ended => (started' = started \/ ex' = ex)]_vars
    /\ [](started - ended = Cardinality(Cycles))

\* two events came while the first cycle was in flight, the cycle has
\* completed and no other has started
C3_Witness ==
    /\ delivered = 3
    /\ started = 1
    /\ ended = 1
    /\ Cycles = {}
    /\ ~lock

(***************************************************************************)
(* C4: a cycle that ends by an error leaves the handler registered, with   *)
(* the lock released and first cleared; an event delivered with the lock   *)
(* released starts a cycle.                                                *)
(***************************************************************************)
C4_FailedCycleKeepsWatching ==
    /\ [][(ended' = ended + 1 /\ lastOutcome' # "ok")
            => (~lock' /\ ~first' /\ watching' /\ watched' = watched)]_vars
    /\ [][watching => watching']_vars
    /\ [][(watching /\ ~lock /\ delivered' = delivered + 1)
            => started' = started + 1]_vars

\* after a cycle that threw, the next event has started a cycle
C4_Witness ==
    /\ lastOutcome = "threw"
    /\ ended = 1
    /\ started = 2
    /\ Cycles = {2}
    /\ lock

(***************************************************************************)
(* C5: every cycle after the first runs with update and edits the comment  *)
(* that carries the watermark: it creates none and it does not end by the  *)
(* configuration error; the cycles of a watch create at most one comment.  *)
(***************************************************************************)
C5_LaterCyclesEdit ==
    /\ \A i \in Cycles : i >= 2 => (ex[i].update /\ ex[i].op # "create")
    /\ ended >= 2 => lastOutcome # "config"
    /\ Cardinality(Created) <= 1

(***************************************************************************)
(* C7: with rmWatermark and update both set, every call ends with the      *)
(* configuration error and nothing is done: no file is read, no upload     *)
(* starts, the comments are as before, no path is watched, no handler is   *)
(* registered.  A cycle whose update is forced on top of rmWatermark ends  *)
(* the same way.                                                           *)
(***************************************************************************)
C7_ConfigErrorBeforeIO ==
    /\ (ccOpts.rmWatermark /\ ccOpts.update)
         => /\ DOMAIN ex = {}
            /\ comments = comments0
            /\ watched = {}
            /\ ~watching
            /\ orphans = 0
            /\ \A k \in 1..Len(rets) :
                 rets[k] = [outcome |-> "config", io |-> {}, op |-> "none", id |-> 0]
    /\ \A k \in 1..Len(rets) : rets[k].outcome = "config" => rets[k].io = {}
    /\ ccOpts.rmWatermark => \A i \in Cycles : i = 1 /\ ~ex[i].update

\* a call with both set has ended
C7_Witness ==
    /\ ccOpts.rmWatermark
    /\ ccOpts.update
    /\ ccOpts.publish
    /\ Len(comments0) > 0
    /\ Len(rets) = 1
    /\ rets[1].outcome = "config"

(***************************************************************************)
(* C10: a reference whose upload ended with ENOENT keeps its url and the   *)
(* execution goes on, the references whose upload succeeded are rewritten; *)
(* an execution one of whose uploads ended with another error goes no      *)
(* further: it lists, creates and updates no comment.                      *)
(***************************************************************************)
C10_MissingFileTolerated ==
    /\ \A i \in DOMAIN ex : \A a \in Assets :
         /\ ex[i].nodes[a] = "kept" => ex[i].urls[a] = LocalUrl
         /\ ex[i].nodes[a] = "done" => ex[i].urls[a] = PublishedUrl(ccOpts)
         /\ ex[i].nodes[a] \in {"todo", "pending"} => ex[i].urls[a] = LocalUrl
         /\ ex[i].nodes[a] # "failed"
         /\ (ccOpts.publish /\ ex[i].pc \notin {"read", "publish", "uploads"})
              => ex[i].nodes[a] \in {"done", "kept"}
    /\ \A k \in 1..Len(rets) :
         (rets[k].outcome = "threw" /\ rets[k].io \subseteq {"read", "upload", "watch"})
           => rets[k].op = "none"
    /\ \A k \in 1..Len(comments) :
         (comments[k].urls # [a \in Assets |-> LocalUrl]) => ccOpts.publish

\* a created comment holds one reference as written and one rewritten
C10_Witness ==
    /\ ccOpts.publish
    /\ \E k \in Created :
         /\ comments[k].urls["a1"] = LocalUrl
         /\ comments[k].urls["a2"] = PublishedUrl(ccOpts)

(***************************************************************************)
(* C11: a call of prCreate with globs that ends at one of the early        *)
(* returns has done nothing: no git command and no call of the driver.     *)
(***************************************************************************)
C11_EarlyReturnNoAction ==
    \A k \in 1..Len(prRets) :
        (prIn.globsGiven /\ prRets[k] = Undefined) => prOpsLog[k] = <<>>

(***************************************************************************)
(* C12: with a branch of the computed source name on the remote, the probe *)
(* is followed by no fetch, checkout, add, commit or push; a listed pull   *)
(* request whose source and target are suffixes of the computed names is   *)
(* returned by its url and the driver opens none; the driver opens one     *)
(* only when no such pull request is listed.                               *)
(***************************************************************************)
AfterProbe(ops) ==
    LET at == CHOOSE k \in 1..Len(ops) : ops[k] = "ls-remote"
    IN  SubSeq(ops, at + 1, Len(ops))

C13_EmptyBodyRaises ==
    /\ upRet.kind \in {"value", "empty"}
         => /\ upRet.kind = "empty" <=> upIn.body = <<>>
            /\ upRet.kind = "empty" => upRet.status = upIn.status
            /\ upRet.kind = "value"
                 => upRet = [NoResult EXCEPT !.kind = "value", !.uri = upIn.body,
                                             !.mime = "mime", !.size = 1]
    /\ upRet.kind = "value" => upRet.uri # <<>>
    /\ upNode.uri # <<>>
    /\ upNode.rewritten => (upRet.kind = "value" /\ upNode.uri = upRet.uri)
    /\ (upPc = "done" /\ upRet.kind # "value") => upNode = UpLocalNode

\* the asset store answered 500 with an empty text and the visitor has gone on
C13_Witness ==
    /\ upPc = "done"
    /\ upIn.body = <<>>
    /\ upIn.status = 500
    /\ upRet.kind = "empty"
    /\ upNode = UpLocalNode

(***************************************************************************)
(* C14 as stated: a call of commentCreate with watch never ends, by a      *)
(* return or by an error.                                                  *)
(***************************************************************************)
C14_AsStated == ccOpts.watch => rets = <<>>

(***************************************************************************)
(* C14: a call of commentCreate with watch does not return.  It throws     *)
(* only before the handler is registered, by the configuration error or    *)
(* by an upload of its own publishing that failed; once the handler is     *)
(* registered the call stays in waitForever whatever events and ends of    *)
(* cycles follow.                                                          *)
(***************************************************************************)
C14_WatchNeverReturns ==
    /\ [](ccOpts.watch
            => /\ \A k \in 1..Len(rets) :
                    /\ rets[k].outcome \in {"config", "threw"}
                    /\ rets[k].op = "none"
                    /\ rets[k].io \subseteq {"read", "upload", "watch"}
               /\ rets # <<>> => (~watching /\ started = 0)
               /\ watching => (0 \in DOMAIN ex /\ ex[0].pc = waitForever))
    /\ [][watching => (watching' /\ rets' = rets)]_vars

\* the handler is registered, a cycle has failed, another has succeeded, and
\* the call is still in waitForever
C14_Witness ==
    /\ watching
    /\ ended = 3
    /\ lastOutcome = "ok"
    /\ delivered = 3
    /\ Created # {}
    /\ 0 \in DOMAIN ex
    /\ ex[0].pc = waitForever
    /\ rets = <<>>

(***************************************************************************)
(* C15: with update and several comments that carry the watermark, a call  *)
(* that succeeds has updated the last of them in the order of the listing; *)
(* every other comment is as it was and no comment is created.             *)
(***************************************************************************)
LastMatching == CHOOSE k \in Matching(comments0) : \A j \in Matching(comments0) : j <= k

C15_NewestMatchUpdated ==
    (ccOpts.update /\ Cardinality(Matching(comments0)) >= 2)
    => /\ Len(comments) = Len(comments0)
       /\ \A k \in 1..Len(comments0) : k # LastMatching => comments[k] = comments0[k]
       /\ comments[LastMatching].id = comments0[LastMatching].id
       /\ \A k \in 1..Len(rets) :
            rets[k].outcome = "ok"
              => /\ rets[k].op = "update"
                 /\ rets[k].id = comments0[LastMatching].id
                 /\ comments[LastMatching].body = Report(UserReport, Watermark(ccOpts))
       /\ \A i \in DOMAIN ex : ex[i].op # "create" /\ "create" \notin ex[i].io
       /\ (rets = <<>> /\ \A i \in DOMAIN ex : ex[i].op = "none")
            => comments = comments0

\* of the comments 1 and 3 that carry the watermark, the call has updated 3
\* with the published references
C15_Witness ==
    /\ ccOpts.update
    /\ ccOpts.publish
    /\ Matching(comments0) = {1, 3}
    /\ Len(rets) = 1
    /\ rets[1].outcome = "ok"
    /\ rets[1].id = 3
    /\ comments[3].urls["a1"] = PublishedUrl(ccOpts)
    /\ comments[1] = comments0[1]

(***************************************************************************)
(* C16: a call without watch that succeeds has made one call of the        *)
(* driver that writes: a create, without listing and with the comments     *)
(* that were there unchanged, when update is not set; a create after the   *)
(* listing when update is set and no listed comment carries the watermark; *)
(* an update of a comment and no create when one does.                     *)
(***************************************************************************)
\* a comment carried the watermark when the k-th call listed the comments
MatchAtCall(k) ==
    \/ Matching(comments0) # {}
    \/ \E j \in 1..(k - 1) : rets[j].op = "create"

C16_OneWritePerCall ==
    ~ccOpts.watch
    => /\ \A k \in 1..Len(rets) :
            /\ ~("create" \in rets[k].io /\ "update" \in rets[k].io)
            /\ rets[k].outcome = "ok"
                 => /\ rets[k].op \in {"create", "update"}
                    /\ rets[k].op \in rets[k].io
                    /\ ~ccOpts.update
                         => (rets[k].op = "create" /\ "list" \notin rets[k].io)
                    /\ ccOpts.update
                         => /\ "list" \in rets[k].io
                            /\ rets[k].op = "update" <=> MatchAtCall(k)
       /\ Cardinality(Created)
            = Cardinality({k \in 1..Len(rets) : rets[k].op = "create"})
              + Cardinality({i \in DOMAIN ex : ex[i].op = "create"})
       /\ Len(comments) = Len(comments0) + Cardinality(Created)
       /\ ~ccOpts.update
            => \A k \in 1..Len(comments0) : comments[k] = comments0[k]

\* without update and with comments that carry the watermark, two calls
\* have each created a comment
C16_Witness ==
    /\ ~ccOpts.watch
    /\ ~ccOpts.update
    /\ Cardinality(Matching(comments0)) = 2
    /\ Len(rets) = 2
    /\ rets[1].op = "create"
    /\ rets[2].op = "create"
    /\ Len(comments) = Len(comments0) + 2

(***************************************************************************)
(* C17 as stated: a cycle of the handler deletes the trigger file exactly  *)
(* when its event is for the trigger file and is not a deletion.           *)
(***************************************************************************)
C17_AsStated ==
    [][\A i \in Cycles :
         i \notin DOMAIN ex'
           => ((ex[i].event # "unlink" /\ ex[i].path = ccOpts.triggerFile)
                 <=> ex[i].pc = "unlink")]_vars

(***************************************************************************)
(* C17: a cycle whose nested call has succeeded deletes the trigger file   *)
(* exactly when its event is for the trigger file and is not a deletion; a *)
(* cycle whose nested call has failed deletes nothing.  The handler        *)
(* deletes the file for no other event: never for a deletion event, also   *)
(* when the trigger file is the report.                                    *)
(***************************************************************************)
C17_TriggerDeletedOnSuccess ==
    /\ [](\A i \in DOMAIN ex :
            ex[i].pc = "unlink"
              => /\ ex[i].kind = "cycle"
                 /\ ex[i].event # "unlink"
                 /\ ex[i].path = ccOpts.triggerFile
                 /\ ex[i].op \in {"create", "update"})
    /\ [][\A i \in Cycles :
            (i \notin DOMAIN ex' /\ lastOutcome' = "ok")
              => ((ex[i].event # "unlink" /\ ex[i].path = ccOpts.triggerFile)
                    <=> ex[i].pc = "unlink")]_vars
    /\ [][(triggerExists /\ ~triggerExists' /\ delivered' = delivered)
            => \E i \in Cycles : ex[i].pc = "unlink" /\ i \notin DOMAIN ex']_vars
    /\ [][\A i \in Cycles :
            (i \notin DOMAIN ex' /\ ex[i].pc # "unlink")
              => triggerExists' = triggerExists]_vars

\* the trigger file is the report: the first cycle has deleted it, and the
\* cycle of the deletion event is in flight
C17_Witness ==
    /\ ccOpts.triggerFile = "md"
    /\ ended = 1
    /\ lastOutcome = "ok"
    /\ ~triggerExists
    /\ delivered = 2
    /\ 2 \in Cycles
    /\ ex[2].event = "unlink"
    /\ ex[2].path = "md"

(***************************************************************************)
(* C18: no upload is pending that was started by an execution that has     *)
(* ended: publishing waits for all its uploads, so the uploads of two      *)
(* cycles never overlap.                                                   *)
(***************************************************************************)
C18_AllUploadsSettle ==
    /\ orphans = 0
    /\ Cardinality({i \in Cycles : ex[i].pc = "uploads"}) <= 1

(***************************************************************************)
(* C19 as stated: the message of a commit of prCreate ends with the marker *)
(* exactly when neither a message nor a merge mode is given.               *)
(***************************************************************************)
SkipCiMarked(msg) == msg[Len(msg)] = " [skip ci]"

C19_AsStated ==
    \A k \in 1..Len(gitLog) :
        SkipCiMarked(gitLog[k]) <=> (prIn.message = None /\ prIn.autoMerge = "none")

(***************************************************************************)
(* C19: the message of a commit of prCreate is the given message, or 'CML  *)
(* PR for' and the short commit id; it ends with the marker exactly when   *)
(* skipCi is set or neither a message nor a merge mode is given.           *)
(***************************************************************************)
C19_SkipCiMarker ==
    \A k \in 1..Len(gitLog) :
        LET msg == gitLog[k]
            marked == prIn.skipCi \/ (prIn.message = None /\ prIn.autoMerge = "none")
            base == IF marked THEN SubSeq(msg, 1, Len(msg) - 1) ELSE msg
        IN  /\ SkipCiMarked(msg) <=> marked
            /\ \A j \in 1..Len(base) : base[j] # " [skip ci]"
            /\ IF prIn.message # None THEN base = prIn.message
               ELSE base[1] = "CML PR for " /\ Len(base) > 1

\* commits with the marker: one for skipCi beside a message and a merge
\* mode, and none given at all
C19_Witness ==
    /\ Len(gitLog) = 1
    /\ prIn.skipCi
    /\ prIn.message # None
    /\ prIn.autoMerge = "squash"
    /\ SkipCiMarked(gitLog[1])
    /\ Len(prRets) = 1
    /\ prRets[1].kind = "url"

(***************************************************************************)
(* C20: a call of parseRunnerLog that returns, returns one event for each  *)
(* status whose pattern matches the text and none for the others, in the   *)
(* order ready, job_started, job_ended (nothing when there is no data); a  *)
(* second call on the same text returns the same statuses again.           *)
(***************************************************************************)
StatusesOf(events) == [k \in 1..Len(events) |-> events[k].status]

MatchedStatuses ==
    (IF logIn.ready THEN <<"ready">> ELSE <<>>)
    \o (IF logIn.started THEN <<"job_started">> ELSE <<>>)
    \o (IF logIn.ended THEN <<"job_ended">> ELSE <<>>)

C20_OneEventPerMatch ==
    /\ logPc = "done"
         => /\ StatusesOf(logs) = (IF logIn.empty THEN <<>> ELSE MatchedStatuses)
            /\ logCalls = 2 => StatusesOf(logFirst) = StatusesOf(logs)
    /\ \A j, k \in 1..Len(logs) : (j # k) => logs[j].status # logs[k].status
    /\ Len(logs) <= 3

\* the second call on a text that matches ready and job_ended has returned
\* the two events that the first call returned
C20_Witness ==
    /\ logPc = "done"
    /\ logCalls = 2
    /\ ~logIn.empty
    /\ StatusesOf(logs) = <<"ready", "job_ended">>
    /\ logFirst = logs

(***************************************************************************)
(* C21: a call of sshConnection ends, by a return or by an error, when     *)
(* every attempt settles and every sleep ends.                             *)
(***************************************************************************)
C21_Terminates == <>(sshPc \in {"returned", "threw"})

====
